---------------------------- MODULE Spec2Model ----------------------------
(***************************************************************************)
(* State machine of the extension panel's root component App               *)
(* (src/unnamed/part_000): the query lifecycle (summarize / ask / search), *)
(* the scope setter, the selection popup and the derived render plan.      *)
(*                                                                         *)
(* Strings are sequences of one-character strings, so that String.trim()   *)
(* and JavaScript truthiness of a string (length > 0) are computed, not    *)
(* assumed.  Every handler, and every continuation after an await, is one  *)
(* atomic action: the panel runs on the single UI thread and the state     *)
(* updates of one continuation are committed together.                     *)
(***************************************************************************)
EXTENDS Integers, Sequences, FiniteSets, TLC

VARIABLES
    mounted,        \* the mount effect (lines 36-53) has run
    loading,        \* useState(false), line 11
    question,       \* useState(''), line 12
    answer,         \* useState(''), line 13
    searchAnswer,   \* useState(''), line 14
    answerType,     \* useState(null), line 15
    summary,        \* useState(''), line 16
    searchScope,    \* useState('page'), line 19
    isSummarizing,  \* useState(false), line 20
    isSummarized,   \* useState(false), line 21
    selectionPopup, \* useState({position, text, visible}), lines 23-31
    pending,        \* collaborator calls awaited, in order of submission
    everSummarized, \* history: some analyzeCurrentPage() call has resolved
    everAnswered,   \* history: answer has been non-empty
    scrollsScheduled, \* timeouts scheduled by scrollToAnswer, lines 55-59
    asksResolved,   \* history: askQuestion() calls that have resolved
    everSearched,   \* history: handleSearch has delivered a result
    lastEvent,      \* history: the input of the pointer listener run last
    last            \* history: the handler or continuation that ran last

panelVars == <<loading, question, answer, searchAnswer, answerType, summary,
               searchScope, isSummarizing, isSummarized>>

vars == <<mounted, loading, question, answer, searchAnswer, answerType,
          summary, searchScope, isSummarizing, isSummarized, selectionPopup,
          pending, everSummarized, everAnswered, scrollsScheduled,
          asksResolved, everSearched, lastEvent, last>>

-----------------------------------------------------------------------------
(* Bounds and input domains *)

\* Most collaborator calls awaited at the same time.
MaxInFlight == 2

\* Most askQuestion() calls that resolve in one run.
MaxAnswers == 2

\* Texts the user can type into the question field (the empty text is the
\* field's initial value and the value it is cleared to).
Questions == {<<" ">>, <<" ", "q">>}

\* Texts askQuestion() can resolve with.
Responses == {<<>>, <<"a">>, <<"b">>}

\* Texts analyzeCurrentPage() can resolve with.
Summaries == {<<>>, <<"s">>}

\* Texts the popup can hand to onSearch.
SearchResults == {<<>>, <<"r">>}

Scopes == {"all", "domain", "page"}

\* What window.getSelection().toString() can return on a pointer release.
Selections == {<<>>, <<" ">>, <<" ", "w", " ">>}

\* Bounding rectangles of the first selection range, in CSS pixels.  Widths
\* are even, so that rect.width / 2 is a whole number of pixels.
RectLefts == {-60, 100, 400}
RectWidths == {40, 200}
RectTops == {5, 149, 150}
RectHeights == {20}
Rects ==
    {[left |-> l, width |-> w, top |-> t, bottom |-> t + h] :
        l \in RectLefts, w \in RectWidths, t \in RectTops, h \in RectHeights}

\* window.innerWidth
WindowWidths == {200, 375, 1000}

popupWidth == 300

popupHeight == 150

AnswerTypes == {"define", "elaborate", "search"}

Null == "null"

NoText == <<>>

-----------------------------------------------------------------------------
(* Pure helpers *)

IsSpace(c) == c = " "

RECURSIVE TrimStart(_)
TrimStart(s) ==
    IF s # <<>> /\ IsSpace(Head(s)) THEN TrimStart(Tail(s)) ELSE s

RECURSIVE TrimEnd(_)
TrimEnd(s) ==
    IF s # <<>> /\ IsSpace(s[Len(s)])
    THEN TrimEnd(SubSeq(s, 1, Len(s) - 1))
    ELSE s

\* String.prototype.trim
Trim(s) == TrimEnd(TrimStart(s))

\* JavaScript truthiness of a string
Truthy(s) == Len(s) > 0

\* The sequence s without its i-th element
RemoveAt(s, i) == SubSeq(s, 1, i - 1) \o SubSeq(s, i + 1, Len(s))

\* History record of the handler that ran last.  For a resolved call:
\* response is what it resolved with, and overtakenBy holds the response of
\* the latest call that was submitted after it and resolved before it.
Op(name) == [op |-> name, response |-> NoText, overtakenBy |-> <<>>]

SummarizeCall ==
    [kind |-> "summarize", question |-> NoText, scope |-> Null,
     overtakenBy |-> <<>>]

AskCall(q, s) ==
    [kind |-> "ask", question |-> q, scope |-> s, overtakenBy |-> <<>>]

-----------------------------------------------------------------------------
(* Render plan, lines 185-206 *)

\* <AnswerAnimation type={answerType} /> is rendered, line 188
IndicatorRendered == loading /\ answerType # Null /\ ~Truthy(answer)

\* The kind the rendered indicator is keyed by, line 189
IndicatorType == answerType

SummaryBlockRendered == Truthy(summary)

AnswerBlockRendered == Truthy(answer)

SearchBlockRendered == Truthy(searchAnswer)

-----------------------------------------------------------------------------
(* Initial state: the useState initial values, before the mount effect *)

Init ==
    /\ mounted = FALSE
    /\ loading = FALSE
    /\ question = NoText
    /\ answer = NoText
    /\ searchAnswer = NoText
    /\ answerType = Null
    /\ summary = NoText
    /\ searchScope = "page"
    /\ isSummarizing = FALSE
    /\ isSummarized = FALSE
    /\ selectionPopup = [position |-> <<>>, text |-> NoText, visible |-> FALSE]
    /\ pending = <<>>
    /\ everSummarized = FALSE
    /\ everAnswered = FALSE
    /\ scrollsScheduled = 0
    /\ asksResolved = 0
    /\ everSearched = FALSE
    /\ lastEvent = <<>>
    /\ last = Op("init")

-----------------------------------------------------------------------------
(* Query lifecycle *)

\* summarizeCurrentPage up to its await, lines 68-72
SummarizeSubmit ==
    /\ isSummarizing' = TRUE
    /\ loading' = TRUE
    /\ pending' = Append(pending, SummarizeCall)
    /\ UNCHANGED <<question, answer, searchAnswer, answerType, summary,
                   searchScope, isSummarized, everSummarized, everAnswered,
                   scrollsScheduled, asksResolved, everSearched, lastEvent>>

\* The mount effect: summarizeCurrentPage() and the two document listeners
Mount ==
    /\ ~mounted
    /\ mounted' = TRUE
    /\ SummarizeSubmit
    /\ last' = Op("mount")
    /\ UNCHANGED selectionPopup

\* Header onSummarize={summarizeCurrentPage}
OnSummarize ==
    /\ mounted
    /\ Len(pending) < MaxInFlight
    /\ SummarizeSubmit
    /\ last' = Op("onSummarize")
    /\ UNCHANGED <<mounted, selectionPopup>>

\* SummarizeResolve writing the direct-answer slot as well
SummarizeResolveIntoAnswer(i, s) ==
    /\ pending[i].kind = "summarize"
    /\ summary' = s
    /\ answer' = s
    /\ isSummarized' = TRUE
    /\ loading' = FALSE
    /\ isSummarizing' = FALSE
    /\ pending' = RemoveAt(pending, i)
    /\ everSummarized' = TRUE
    /\ last' = [Op("summarizeResolve") EXCEPT !.response = s]
    /\ UNCHANGED <<mounted, question, searchAnswer, answerType,
                   searchScope, selectionPopup, everAnswered,
                   scrollsScheduled, asksResolved, everSearched, lastEvent>>

\* summarizeCurrentPage after analyzeCurrentPage() resolved with s
SummarizeResolve(i, s) ==
    /\ pending[i].kind = "summarize"
    /\ summary' = s
    /\ isSummarized' = TRUE
    /\ loading' = FALSE
    /\ isSummarizing' = FALSE
    /\ pending' = RemoveAt(pending, i)
    /\ everSummarized' = TRUE
    /\ last' = [Op("summarizeResolve") EXCEPT !.response = s]
    /\ UNCHANGED <<mounted, question, answer, searchAnswer, answerType,
                   searchScope, selectionPopup, everAnswered,
                   scrollsScheduled, asksResolved, everSearched, lastEvent>>

\* SummarizeReject returning from its catch block before isSummarizing is reset
SummarizeRejectKeepsSummarizing(i) ==
    /\ pending[i].kind = "summarize"
    /\ loading' = FALSE
    /\ pending' = RemoveAt(pending, i)
    /\ last' = Op("summarizeReject")
    /\ UNCHANGED <<mounted, question, answer, searchAnswer, answerType,
                   summary, searchScope, isSummarizing, isSummarized,
                   selectionPopup, everSummarized, everAnswered,
                   scrollsScheduled, asksResolved, everSearched, lastEvent>>

\* SummarizeReject resetting isSummarized in its catch block
SummarizeRejectResets(i) ==
    /\ pending[i].kind = "summarize"
    /\ isSummarized' = FALSE
    /\ loading' = FALSE
    /\ isSummarizing' = FALSE
    /\ pending' = RemoveAt(pending, i)
    /\ last' = Op("summarizeReject")
    /\ UNCHANGED <<mounted, question, answer, searchAnswer, answerType,
                   summary, searchScope, selectionPopup, everSummarized,
                   everAnswered,
                   scrollsScheduled, asksResolved, everSearched, lastEvent>>

\* summarizeCurrentPage after analyzeCurrentPage() rejected
SummarizeReject(i) ==
    /\ pending[i].kind = "summarize"
    /\ loading' = FALSE
    /\ isSummarizing' = FALSE
    /\ pending' = RemoveAt(pending, i)
    /\ last' = Op("summarizeReject")
    /\ UNCHANGED <<mounted, question, answer, searchAnswer, answerType,
                   summary, searchScope, isSummarized, selectionPopup,
                   everSummarized, everAnswered,
                   scrollsScheduled, asksResolved, everSearched, lastEvent>>

\* QuestionInput onChange={setQuestion}
SetQuestion(q) ==
    /\ mounted
    /\ question' = q
    /\ last' = Op("setQuestion")
    /\ UNCHANGED <<mounted, loading, answer, searchAnswer, answerType,
                   summary, searchScope, isSummarizing, isSummarized,
                   selectionPopup, pending, everSummarized, everAnswered,
                   scrollsScheduled, asksResolved, everSearched, lastEvent>>

\* HandleQuestionSubmit blanking the previous answer before the call
HandleQuestionSubmitBlanks ==
    /\ mounted
    /\ IF ~Truthy(Trim(question))
       THEN UNCHANGED <<loading, pending, answer>>
       ELSE /\ Len(pending) < MaxInFlight
            /\ loading' = TRUE
            /\ answer' = NoText
            /\ pending' = Append(pending, AskCall(question, searchScope))
    /\ last' = Op("handleQuestionSubmit")
    /\ UNCHANGED <<mounted, question, searchAnswer, answerType,
                   summary, searchScope, isSummarizing, isSummarized,
                   selectionPopup, everSummarized, everAnswered,
                   scrollsScheduled, asksResolved, everSearched, lastEvent>>

\* HandleQuestionSubmit testing the question without trimming it
HandleQuestionSubmitUntrimmed ==
    /\ mounted
    /\ IF ~Truthy(question)
       THEN UNCHANGED <<loading, pending>>
       ELSE /\ Len(pending) < MaxInFlight
            /\ loading' = TRUE
            /\ pending' = Append(pending, AskCall(question, searchScope))
    /\ last' = Op("handleQuestionSubmit")
    /\ UNCHANGED <<mounted, question, answer, searchAnswer, answerType,
                   summary, searchScope, isSummarizing, isSummarized,
                   selectionPopup, everSummarized, everAnswered,
                   scrollsScheduled, asksResolved, everSearched, lastEvent>>

\* handleQuestionSubmit up to its await
HandleQuestionSubmit ==
    /\ mounted
    /\ IF ~Truthy(Trim(question))
       THEN UNCHANGED <<loading, pending>>
       ELSE /\ Len(pending) < MaxInFlight
            /\ loading' = TRUE
            /\ pending' = Append(pending, AskCall(question, searchScope))
    /\ last' = Op("handleQuestionSubmit")
    /\ UNCHANGED <<mounted, question, answer, searchAnswer, answerType,
                   summary, searchScope, isSummarizing, isSummarized,
                   selectionPopup, everSummarized, everAnswered,
                   scrollsScheduled, asksResolved, everSearched, lastEvent>>

\* scrollToAnswer scheduling its timeout twice
ScrollToAnswerTwice == scrollsScheduled' = scrollsScheduled + 2

\* scrollToAnswer, lines 55-59: one timeout is scheduled
ScrollToAnswer == scrollsScheduled' = scrollsScheduled + 1

\* The calls still awaited once ask i has resolved with r: the asks
\* submitted before it are from then on known to have been overtaken.
Overtake(i, r) ==
    [j \in 1..(Len(pending) - 1) |->
        IF j < i /\ pending[j].kind = "ask"
        THEN [pending[j] EXCEPT !.overtakenBy = <<r>>]
        ELSE RemoveAt(pending, i)[j]]

\* AskResolve resetting answerType once the answer is stored
AskResolveClearsType(i, r) ==
    /\ pending[i].kind = "ask"
    /\ answer' = r
    /\ answerType' = Null
    /\ question' = NoText
    /\ loading' = FALSE
    /\ pending' = Overtake(i, r)
    /\ everAnswered' = (everAnswered \/ Truthy(r))
    /\ last' = [op |-> "askResolve", response |-> r,
                overtakenBy |-> pending[i].overtakenBy]
    /\ ScrollToAnswer
    /\ asksResolved < MaxAnswers
    /\ asksResolved' = asksResolved + 1
    /\ UNCHANGED <<mounted, searchAnswer, summary, searchScope,
                   isSummarizing, isSummarized, selectionPopup,
                   everSummarized, everSearched, lastEvent>>

\* AskResolve fenced: the response of an overtaken ask is dropped
AskResolveFenced(i, r) ==
    /\ pending[i].kind = "ask"
    /\ answer' = IF pending[i].overtakenBy = <<>> THEN r ELSE answer
    /\ question' = NoText
    /\ loading' = FALSE
    /\ pending' = Overtake(i, r)
    /\ everAnswered' = (everAnswered \/ Truthy(answer'))
    /\ last' = [op |-> "askResolve", response |-> r,
                overtakenBy |-> pending[i].overtakenBy]
    /\ ScrollToAnswer
    /\ asksResolved < MaxAnswers
    /\ asksResolved' = asksResolved + 1
    /\ UNCHANGED <<mounted, searchAnswer, answerType, summary, searchScope,
                   isSummarizing, isSummarized, selectionPopup,
                   everSummarized, everSearched, lastEvent>>

\* handleQuestionSubmit after askQuestion() resolved with response r
AskResolve(i, r) ==
    /\ pending[i].kind = "ask"
    /\ answer' = r
    /\ question' = NoText
    /\ loading' = FALSE
    /\ pending' = Overtake(i, r)
    /\ everAnswered' = (everAnswered \/ Truthy(r))
    /\ last' = [op |-> "askResolve", response |-> r,
                overtakenBy |-> pending[i].overtakenBy]
    /\ ScrollToAnswer
    /\ asksResolved < MaxAnswers
    /\ asksResolved' = asksResolved + 1
    /\ UNCHANGED <<mounted, searchAnswer, answerType, summary, searchScope,
                   isSummarizing, isSummarized, selectionPopup,
                   everSummarized, everSearched, lastEvent>>

\* AskReject returning from its catch block before loading is reset
AskRejectKeepsLoading(i) ==
    /\ pending[i].kind = "ask"
    /\ pending' = RemoveAt(pending, i)
    /\ last' = Op("askReject")
    /\ UNCHANGED <<mounted, loading, question, answer, searchAnswer,
                   answerType, summary, searchScope, isSummarizing,
                   isSummarized, selectionPopup, everSummarized, everAnswered,
                   scrollsScheduled, asksResolved, everSearched, lastEvent>>

\* AskReject blanking the answer in its catch block
AskRejectBlanks(i) ==
    /\ pending[i].kind = "ask"
    /\ answer' = NoText
    /\ loading' = FALSE
    /\ pending' = RemoveAt(pending, i)
    /\ last' = Op("askReject")
    /\ UNCHANGED <<mounted, question, searchAnswer, answerType,
                   summary, searchScope, isSummarizing, isSummarized,
                   selectionPopup, everSummarized, everAnswered,
                   scrollsScheduled, asksResolved, everSearched, lastEvent>>

\* handleQuestionSubmit after askQuestion() rejected
AskReject(i) ==
    /\ pending[i].kind = "ask"
    /\ loading' = FALSE
    /\ pending' = RemoveAt(pending, i)
    /\ last' = Op("askReject")
    /\ UNCHANGED <<mounted, question, answer, searchAnswer, answerType,
                   summary, searchScope, isSummarizing, isSummarized,
                   selectionPopup, everSummarized, everAnswered,
                   scrollsScheduled, asksResolved, everSearched, lastEvent>>

\* handleSearch, lines 148-151
HandleSearch(a) ==
    /\ mounted
    /\ searchAnswer' = a
    /\ answerType' = "search"
    /\ everSearched' = TRUE
    /\ last' = Op("handleSearch")
    /\ UNCHANGED <<mounted, loading, question, answer, summary, searchScope,
                   isSummarizing, isSummarized, selectionPopup, pending,
                   everSummarized, everAnswered, scrollsScheduled,
                   asksResolved, lastEvent>>

\* SetSearchScope reaching the asks already awaited
SetSearchScopeRetroactive(s) ==
    /\ mounted
    /\ searchScope' = s
    /\ pending' = [j \in 1..Len(pending) |->
                    IF pending[j].kind = "ask"
                    THEN [pending[j] EXCEPT !.scope = s]
                    ELSE pending[j]]
    /\ last' = Op("setSearchScope")
    /\ UNCHANGED <<mounted, loading, question, answer, searchAnswer,
                   answerType, summary, isSummarizing, isSummarized,
                   selectionPopup, everSummarized, everAnswered,
                   scrollsScheduled, asksResolved, everSearched, lastEvent>>

\* FocusModal onScopeSelect={setSearchScope}
SetSearchScope(s) ==
    /\ mounted
    /\ searchScope' = s
    /\ last' = Op("setSearchScope")
    /\ UNCHANGED <<mounted, loading, question, answer, searchAnswer,
                   answerType, summary, isSummarizing, isSummarized,
                   selectionPopup, pending, everSummarized, everAnswered,
                   scrollsScheduled, asksResolved, everSearched, lastEvent>>

Next ==
    \/ Mount
    \/ OnSummarize
    \/ \E i \in 1..Len(pending), s \in Summaries : SummarizeResolve(i, s)
    \/ \E i \in 1..Len(pending) : SummarizeReject(i)
    \/ \E q \in Questions : SetQuestion(q)
    \/ HandleQuestionSubmit
    \/ \E i \in 1..Len(pending), r \in Responses : AskResolve(i, r)
    \/ \E i \in 1..Len(pending) : AskReject(i)
    \/ \E a \in SearchResults : HandleSearch(a)
    \/ \E s \in Scopes : SetSearchScope(s)

Spec == Init /\ [][Next]_vars

\* Some awaited collaborator call settles: its continuation runs
Settle ==
    \E i \in 1..Len(pending) :
        \/ \E s \in Summaries : SummarizeResolve(i, s)
        \/ SummarizeReject(i)
        \/ \E r \in Responses : AskResolve(i, r)
        \/ AskReject(i)

\* The handlers that read or write loading or the awaited calls.  handleSearch
\* and the scope setter do neither and are left out of the liveness check.
NextLive ==
    \/ Mount
    \/ OnSummarize
    \/ \E q \in Questions : SetQuestion(q)
    \/ HandleQuestionSubmit
    \/ Settle

\* The panel under the assumption that awaited calls do settle: the event
\* loop runs the continuation of a settled promise.
SpecLive == Init /\ [][NextLive]_vars /\ WF_vars(Settle)

-----------------------------------------------------------------------------
(* Selection popup *)

\* AnchorX testing the right edge before the left edge
AnchorXRightFirst(rect, windowWidth) ==
    LET x == rect.left + (rect.width \div 2)
    IN  IF x + (popupWidth \div 2) > windowWidth
        THEN windowWidth - (popupWidth \div 2)
        ELSE IF x - (popupWidth \div 2) < 0
             THEN popupWidth \div 2
             ELSE x

\* The anchor computed at lines 96-112
AnchorX(rect, windowWidth) ==
    LET x == rect.left + (rect.width \div 2)
    IN  IF x - (popupWidth \div 2) < 0
        THEN popupWidth \div 2
        ELSE IF x + (popupWidth \div 2) > windowWidth
             THEN windowWidth - (popupWidth \div 2)
             ELSE x

\* AnchorY placing the popup below also when it just fits above
AnchorYInclusive(rect) ==
    LET y == rect.top
    IN  IF y - popupHeight <= 0 THEN rect.bottom + 10 ELSE rect.top - 10

AnchorY(rect) ==
    LET y == rect.top
    IN  IF y - popupHeight < 0 THEN rect.bottom + 10 ELSE rect.top - 10

\* HandleTextSelection hiding the popup when no range can be obtained
HandleTextSelectionHidesWithoutRange(selection, hasRange, rect, windowWidth) ==
    LET selectedText == Trim(selection)
    IN  /\ mounted
        /\ IF Truthy(selectedText) /\ Len(selectedText) > 0 /\ hasRange
           THEN selectionPopup' =
                    [position |-> <<AnchorX(rect, windowWidth),
                                    AnchorY(rect)>>,
                     text |-> selectedText,
                     visible |-> TRUE]
           ELSE selectionPopup' = [selectionPopup EXCEPT !.visible = FALSE]
        /\ last' = Op("handleTextSelection")
        /\ lastEvent' = [selection |-> selection, hasRange |-> hasRange,
                         rect |-> rect, windowWidth |-> windowWidth]
        /\ UNCHANGED <<mounted, panelVars, pending, everSummarized,
                       everAnswered, scrollsScheduled, asksResolved,
                       everSearched>>

\* HandleTextSelection testing the selection without trimming it
HandleTextSelectionUntrimmedTest(selection, hasRange, rect, windowWidth) ==
    LET selectedText == Trim(selection)
    IN  /\ mounted
        /\ IF Truthy(selection) /\ Len(selection) > 0
           THEN IF hasRange
                THEN selectionPopup' =
                        [position |-> <<AnchorX(rect, windowWidth),
                                        AnchorY(rect)>>,
                         text |-> selectedText,
                         visible |-> TRUE]
                ELSE UNCHANGED selectionPopup
           ELSE selectionPopup' = [selectionPopup EXCEPT !.visible = FALSE]
        /\ last' = Op("handleTextSelection")
        /\ lastEvent' = [selection |-> selection, hasRange |-> hasRange,
                         rect |-> rect, windowWidth |-> windowWidth]
        /\ UNCHANGED <<mounted, panelVars, pending, everSummarized,
                       everAnswered, scrollsScheduled, asksResolved,
                       everSearched>>

\* handleTextSelection, lines 82-123: the mouseup listener.  hasRange is
\* false when no range, and so no rectangle, can be obtained; the handler
\* then ends without a state update.
HandleTextSelection(selection, hasRange, rect, windowWidth) ==
    LET selectedText == Trim(selection)
    IN  /\ mounted
        /\ IF Truthy(selectedText) /\ Len(selectedText) > 0
           THEN IF hasRange
                THEN selectionPopup' =
                        [position |-> <<AnchorX(rect, windowWidth),
                                        AnchorY(rect)>>,
                         text |-> selectedText,
                         visible |-> TRUE]
                ELSE UNCHANGED selectionPopup
           ELSE selectionPopup' = [selectionPopup EXCEPT !.visible = FALSE]
        /\ last' = Op("handleTextSelection")
        /\ lastEvent' = [selection |-> selection, hasRange |-> hasRange,
                         rect |-> rect, windowWidth |-> windowWidth]
        /\ UNCHANGED <<mounted, panelVars, pending, everSummarized,
                       everAnswered, scrollsScheduled, asksResolved,
                       everSearched>>

\* HandleClickOutside with the containment test inverted
HandleClickOutsideInverted(insidePopup) ==
    /\ mounted
    /\ IF insidePopup
       THEN selectionPopup' = [selectionPopup EXCEPT !.visible = FALSE]
       ELSE UNCHANGED selectionPopup
    /\ last' = Op("handleClickOutside")
    /\ lastEvent' = [insidePopup |-> insidePopup]
    /\ UNCHANGED <<mounted, panelVars, pending, everSummarized,
                   everAnswered, scrollsScheduled, asksResolved,
                   everSearched>>

\* handleClickOutside, lines 125-130: the mousedown listener.  insidePopup
\* is popup?.contains(event.target), false also when no popup element exists.
HandleClickOutside(insidePopup) ==
    /\ mounted
    /\ IF ~insidePopup
       THEN selectionPopup' = [selectionPopup EXCEPT !.visible = FALSE]
       ELSE UNCHANGED selectionPopup
    /\ last' = Op("handleClickOutside")
    /\ lastEvent' = [insidePopup |-> insidePopup]
    /\ UNCHANGED <<mounted, panelVars, pending, everSummarized,
                   everAnswered, scrollsScheduled, asksResolved,
                   everSearched>>

NextPopup ==
    \/ Mount
    \/ \E selection \in Selections, hasRange \in BOOLEAN, rect \in Rects,
          windowWidth \in WindowWidths :
            HandleTextSelection(selection, hasRange, rect, windowWidth)
    \/ \E insidePopup \in BOOLEAN : HandleClickOutside(insidePopup)

\* The pointer listeners alone, over the panel as mounted
SpecPopup == Init /\ [][NextPopup]_vars

-----------------------------------------------------------------------------
(* Claims *)

InFlight(kind) == \E j \in 1..Len(pending) : pending[j].kind = kind

\* C1: while any summarize or ask request is in flight, loading is true,
\* also when two requests overlap and one completes before the other.
C1_LoadingWhileInFlight == pending # <<>> => loading

\* C2: ask submissions are not cancelled, queued or fenced: after an ask has
\* resolved, answer is the response of that ask, the one that resolved last,
\* also when an ask submitted after it had resolved before it.
C2_LastWriteWins == last.op = "askResolve" => answer = last.response

\* The first-submitted ask resolved after the second, with another response.
C2_Witness ==
    /\ last.op = "askResolve"
    /\ last.overtakenBy # <<>>
    /\ last.overtakenBy # <<last.response>>
    /\ Truthy(last.response)
    /\ answer = last.response
    /\ ~InFlight("ask")

\* C3: a visible popup has a position and a non-empty text.
C3_VisibleHasAnchorAndText ==
    selectionPopup.visible =>
        selectionPopup.position # <<>> /\ Truthy(selectionPopup.text)

\* A press inside the popup left a published popup visible.
C3_Witness ==
    /\ selectionPopup.visible
    /\ last.op = "handleClickOutside"
    /\ selectionPopup.position # <<>>

\* C4: for each answer kind K the indicator keyed by K is rendered exactly
\* when loading is true, answerType is K and the content of slot K is empty,
\* the content of the search slot being searchAnswer.
C4_IndicatorGating ==
    \A K \in AnswerTypes :
        (IndicatorRendered /\ IndicatorType = K)
            <=> /\ loading
                /\ answerType = K
                /\ ~Truthy(IF K = "search" THEN searchAnswer ELSE answer)

\* C5: once answer has been non-empty, the indicator is never rendered.
C5_IndicatorNeverReturns == everAnswered => ~IndicatorRendered

\* C6: a failed summarize or ask leaves its slot's content as it was, ends
\* with loading false, and records nothing else in the panel state.
C6_FailurePreservesContent ==
    [][/\ last'.op = "summarizeReject" =>
            /\ summary' = summary
            /\ ~loading'
            /\ UNCHANGED <<question, answer, searchAnswer, answerType,
                           searchScope, isSummarized, selectionPopup>>
       /\ last'.op = "askReject" =>
            /\ answer' = answer
            /\ ~loading'
            /\ UNCHANGED <<question, searchAnswer, answerType, summary,
                           searchScope, isSummarizing, isSummarized,
                           selectionPopup>>]_vars

\* An ask failed over a populated answer while another call was awaited.
C6_Witness ==
    /\ last.op = "askReject"
    /\ Truthy(answer)
    /\ ~loading
    /\ pending # <<>>

\* C7: a summarize completion leaves answer and searchAnswer as they were,
\* an ask completion leaves summary and searchAnswer as they were, and a
\* search result leaves summary and answer as they were.
C7_SlotIndependence ==
    [][/\ last'.op \in {"summarizeResolve", "summarizeReject"} =>
            answer' = answer /\ searchAnswer' = searchAnswer
       /\ last'.op \in {"askResolve", "askReject"} =>
            summary' = summary /\ searchAnswer' = searchAnswer
       /\ last'.op = "handleSearch" =>
            summary' = summary /\ answer' = answer]_vars

\* A summarize resolved while the other two slots held content.
C7_Witness ==
    /\ last.op = "summarizeResolve"
    /\ Truthy(summary)
    /\ Truthy(answer)
    /\ Truthy(searchAnswer)

\* C8: an ask carries the question and the scope current when it was
\* submitted; the scope setter changes no call already awaited.
C8_ScopeAtSubmission ==
    [][/\ (last'.op = "handleQuestionSubmit" /\ Truthy(Trim(question))) =>
            /\ Len(pending') = Len(pending) + 1
            /\ pending'[Len(pending')].kind = "ask"
            /\ pending'[Len(pending')].question = question
            /\ pending'[Len(pending')].scope = searchScope
            /\ \A j \in 1..Len(pending) : pending'[j] = pending[j]
       /\ last'.op = "setSearchScope" => pending' = pending]_vars

\* The scope was changed while an ask submitted under another scope is awaited.
C8_Witness ==
    /\ last.op = "setSearchScope"
    /\ \E j \in 1..Len(pending) :
        pending[j].kind = "ask" /\ pending[j].scope # searchScope

\* C9: isSummarized is true exactly when a summarize has resolved; before
\* that summary is empty; a resolved summarize publishes its response.
C9_SummarizedIffSucceeded ==
    /\ isSummarized <=> everSummarized
    /\ ~everSummarized => summary = NoText
    /\ last.op = "summarizeResolve" => summary = last.response /\ isSummarized

\* A summarize failed after an earlier one had succeeded.
C9_Witness ==
    /\ last.op = "summarizeReject"
    /\ isSummarized
    /\ Truthy(summary)

\* C10: submitting a question that is empty after trimming changes nothing:
\* no call is issued and no panel state changes.
C10_EmptySubmitIsNoOp ==
    [][(last'.op = "handleQuestionSubmit" /\ ~Truthy(Trim(question))) =>
            UNCHANGED <<panelVars, pending, selectionPopup>>]_vars

\* A question of blanks only was submitted.
C10_Witness ==
    /\ last.op = "handleQuestionSubmit"
    /\ Truthy(question)
    /\ ~Truthy(Trim(question))

\* C11: the scrolls scheduled are as many as the asks that have resolved;
\* failed asks, summarize completions and search results schedule none.
C11_OneScrollPerAnswer == scrollsScheduled = asksResolved

\* Two asks resolved, then one failed.
C11_Witness ==
    /\ last.op = "askReject"
    /\ asksResolved = 2
    /\ scrollsScheduled = 2
    /\ everSummarized
    /\ everSearched

\* C12: a submit step leaves answer, summary and searchAnswer as they were;
\* answer changes only where an ask resolves, summary only where a summarize
\* resolves.
C12_SubmitNeverBlanks ==
    [][/\ last'.op \in {"mount", "onSummarize", "handleQuestionSubmit"} =>
            UNCHANGED <<answer, summary, searchAnswer>>
       /\ answer' # answer => last'.op = "askResolve"
       /\ summary' # summary => last'.op = "summarizeResolve"]_vars

\* A second question was submitted over an answer and a summary on display.
C12_Witness ==
    /\ last.op = "handleQuestionSubmit"
    /\ InFlight("ask")
    /\ loading
    /\ Truthy(answer)
    /\ Truthy(summary)

\* C13: a press outside the popup region (or with no popup element) ends
\* with visible false; a press inside leaves the popup state as it was.
C13_PressOutsideHides ==
    [][last'.op = "handleClickOutside" =>
            IF lastEvent'.insidePopup
            THEN selectionPopup' = selectionPopup
            ELSE ~selectionPopup'.visible]_vars

\* A press outside hid a popup that had been published.
C13_Witness ==
    /\ last.op = "handleClickOutside"
    /\ ~lastEvent.insidePopup
    /\ ~selectionPopup.visible
    /\ selectionPopup.position # <<>>

\* The last pointer release published an anchor.
Published ==
    /\ last.op = "handleTextSelection"
    /\ Truthy(Trim(lastEvent.selection))
    /\ lastEvent.hasRange

\* rect.left + rect.width / 2 of the last pointer release
Center == lastEvent.rect.left + (lastEvent.rect.width \div 2)

\* C14, as claimed: for every rectangle and viewport width, a center left of
\* W/2 publishes x = W/2 and a center right of viewportWidth - W/2 publishes
\* x = viewportWidth - W/2.
C14_EdgeClampBothSides ==
    Published =>
        /\ Center < popupWidth \div 2 =>
            selectionPopup.position[1] = popupWidth \div 2
        /\ Center > lastEvent.windowWidth - (popupWidth \div 2) =>
            selectionPopup.position[1] =
                lastEvent.windowWidth - (popupWidth \div 2)

\* C14, amended: a center left of W/2 publishes x = W/2; a center not left
\* of W/2 and right of viewportWidth - W/2 publishes x = viewportWidth - W/2.
C14_EdgeClampLeftFirst ==
    Published =>
        /\ Center < popupWidth \div 2 =>
            selectionPopup.position[1] = popupWidth \div 2
        /\ (/\ Center >= popupWidth \div 2
            /\ Center > lastEvent.windowWidth - (popupWidth \div 2)) =>
            selectionPopup.position[1] =
                lastEvent.windowWidth - (popupWidth \div 2)

\* In a viewport narrower than W a center at W/2 or beyond was clamped right.
C14_Witness ==
    /\ Published
    /\ lastEvent.windowWidth < popupWidth
    /\ Center >= popupWidth \div 2
    /\ selectionPopup.position[1] =
            lastEvent.windowWidth - (popupWidth \div 2)

\* C15: the published y is rect.bottom + 10 when rect.top < H and
\* rect.top - 10 otherwise; {left 100, width 40, top 5, bottom 25} in a
\* viewport 375 wide publishes (150, 35).
C15_VerticalPlacement ==
    Published =>
        /\ selectionPopup.position[2] =
                IF lastEvent.rect.top < popupHeight
                THEN lastEvent.rect.bottom + 10
                ELSE lastEvent.rect.top - 10
        /\ (/\ lastEvent.rect =
                    [left |-> 100, width |-> 40, top |-> 5, bottom |-> 25]
            /\ lastEvent.windowWidth = 375) =>
                selectionPopup.position = <<150, 35>>

\* A rectangle whose top is exactly H was placed above.
C15_Witness ==
    /\ Published
    /\ lastEvent.rect.top = popupHeight
    /\ selectionPopup.position[2] = popupHeight - 10

\* C16: a release with non-empty text and no range leaves the popup state
\* as it was; a release with empty text only sets visible to false.
C16_ReleaseFrame ==
    [][last'.op = "handleTextSelection" =>
        /\ (Truthy(Trim(lastEvent'.selection)) /\ ~lastEvent'.hasRange) =>
                selectionPopup' = selectionPopup
        /\ ~Truthy(Trim(lastEvent'.selection)) =>
                selectionPopup' =
                    [selectionPopup EXCEPT !.visible = FALSE]]_vars

\* A release with text and no range left a published popup visible.
C16_Witness ==
    /\ last.op = "handleTextSelection"
    /\ Truthy(Trim(lastEvent.selection))
    /\ ~lastEvent.hasRange
    /\ selectionPopup.visible

\* C17: provided awaited calls settle, loading, once true, becomes false
\* again, after a success and after a failure alike.
C17_LoadingEnds == loading ~> ~loading

\* A failed ask ended loading with nothing else awaited.
C17_Witness ==
    /\ last.op = "askReject"
    /\ ~loading
    /\ pending = <<>>
    /\ asksResolved = 0

\* C18: isSummarizing is true whenever a summarize is in flight, also when
\* a re-triggered summarize overlaps the automatic one.
C18_SummarizingWhileInFlight == InFlight("summarize") => isSummarizing

\* C19: with no summarize and no ask in flight, loading and isSummarizing
\* are false, in whatever order earlier requests overlapped and completed.
C19_Quiescence == pending = <<>> => ~loading /\ ~isSummarizing

\* Nothing is awaited after an overtaken ask was the last call to resolve.
C19_Witness ==
    /\ mounted
    /\ pending = <<>>
    /\ last.op = "askResolve"
    /\ last.overtakenBy # <<>>
    /\ everSummarized
    /\ ~loading
    /\ ~isSummarizing

\* C20: answerType is null until the first search result is delivered, is
\* 'search' from then on, and no indicator is rendered before that result.
C20_AnswerTypeOnlyBySearch ==
    /\ ~everSearched => answerType = Null /\ ~IndicatorRendered
    /\ everSearched => answerType = "search"

\* An ask is loading over an empty answer before any search result.
C20_Witness ==
    /\ ~everSearched
    /\ InFlight("ask")
    /\ loading
    /\ ~Truthy(answer)
    /\ last.op = "handleQuestionSubmit"

=============================================================================
